---------------------------- MODULE Spec2Model ----------------------------
(***************************************************************************)
(* Model of src/content.js: the Google Scholar venue analyzer content      *)
(* script (message listener, analyzeAllVenues, loadAllPublications,        *)
(* waitForNewPublicationsOptimized, extractVenueData, normalizeVenue).     *)
(*                                                                         *)
(* Venue texts are strings and every regular expression of normalizeVenue  *)
(* is evaluated character by character.  The module is ASCII, so the one   *)
(* non-ASCII character the source names, U+2026 (horizontal ellipsis), is  *)
(* written "~".  Whitespace is the space character.                        *)
(***************************************************************************)
EXTENDS Integers, Sequences, FiniteSets, TLC

NoLabel == "<null>"            \* JavaScript null returned by normalizeVenue
Ellipsis == "~"                \* stands for U+2026

\* const x = value; followed by Body(x).  JavaScript computes the value once, where
\* it is bound; an operator argument or a LET definition is computed wherever it is
\* used.  Values that are used more than once are bound with With.
With(value, Body(_)) == CHOOSE result \in {Body(x) : x \in {value}} : TRUE

(***************************************************************************)
(* Characters and character classes.                                       *)
(***************************************************************************)
Char(s, i) == SubSeq(s, i, i)
InText(s, i) == i >= 1 /\ i <= Len(s)

Digits == {"0", "1", "2", "3", "4", "5", "6", "7", "8", "9"}
UpperCase == "ABCDEFGHIJKLMNOPQRSTUVWXYZ"
LowerCase == "abcdefghijklmnopqrstuvwxyz"
Letters == {Char(UpperCase, i) : i \in 1..26} \cup {Char(LowerCase, i) : i \in 1..26}

IsDigitAt(s, i) == InText(s, i) /\ Char(s, i) \in Digits          \* \d
IsSpaceAt(s, i) == InText(s, i) /\ Char(s, i) = " "               \* \s
IsWordAt(s, i)  == InText(s, i) /\ Char(s, i) \in Letters \cup Digits \cup {"_"}  \* \w
Digits4At(s, i) == \A k \in 0..3 : IsDigitAt(s, i + k)            \* \d{4}

\* The first position at or after i that does not hold a character of the class.
SkipSpaces(s, i) ==
  CHOOSE j \in i..(Len(s) + 1) :
    (\A k \in i..(j - 1) : IsSpaceAt(s, k)) /\ ~IsSpaceAt(s, j)
SkipDigits(s, i) ==
  CHOOSE j \in i..(Len(s) + 1) :
    (\A k \in i..(j - 1) : IsDigitAt(s, k)) /\ ~IsDigitAt(s, j)
SkipDigitsHyphens(s, i) ==
  CHOOSE j \in i..(Len(s) + 1) :
    (\A k \in i..(j - 1) : IsDigitAt(s, k) \/ (InText(s, k) /\ Char(s, k) = "-"))
    /\ ~(IsDigitAt(s, j) \/ (InText(s, j) /\ Char(s, j) = "-"))
\* The start of the whitespace run that ends just before position i.
SpacesBefore(s, i) ==
  CHOOSE p \in 1..i :
    (\A k \in p..(i - 1) : IsSpaceAt(s, k)) /\ ~IsSpaceAt(s, p - 1)
\* Whether everything from position i to the end is whitespace: \s*$
OnlySpacesFrom(s, i) == \A k \in i..Len(s) : IsSpaceAt(s, k)

From(s, i) == SubSeq(s, i, Len(s))
Upto(s, i) == SubSeq(s, 1, i)
StartsWith(s, p) == Len(s) >= Len(p) /\ Upto(s, Len(p)) = p

\* String.prototype.trim
trim(text) ==
  With(text, LAMBDA s :
    IF \A k \in 1..Len(s) : IsSpaceAt(s, k) THEN ""
    ELSE SubSeq(s, SkipSpaces(s, 1),
                CHOOSE j \in 1..Len(s) : ~IsSpaceAt(s, j) /\ OnlySpacesFrom(s, j + 1)))

\* String.prototype.toLowerCase (ASCII)
LowerChar(c) ==
  IF \E i \in 1..26 : Char(UpperCase, i) = c
  THEN Char(LowerCase, CHOOSE i \in 1..26 : Char(UpperCase, i) = c)
  ELSE c
\* The characters lo..hi of s in lower case; the range is halved.
RECURSIVE LowerRange(_, _, _)
LowerRange(s, lo, hi) ==
  IF lo > hi THEN ""
  ELSE IF lo = hi THEN With(Char(s, lo), LAMBDA c : LowerChar(c))
  ELSE With((lo + hi) \div 2, LAMBDA mid :
         LowerRange(s, lo, mid) \o LowerRange(s, mid + 1, hi))
toLowerCase(text) == With(text, LAMBDA s : LowerRange(s, 1, Len(s)))

\* replace(/\s+/g, " "): every run of whitespace becomes one space
\* The characters lo..hi of s: a whitespace character that follows another is
\* dropped, the others are kept.  The range is halved.
RECURSIVE CollapseRange(_, _, _)
CollapseRange(s, lo, hi) ==
  IF lo > hi THEN ""
  ELSE IF lo = hi THEN (IF IsSpaceAt(s, lo) /\ IsSpaceAt(s, lo - 1) THEN "" ELSE Char(s, lo))
  ELSE With((lo + hi) \div 2, LAMBDA mid :
         CollapseRange(s, lo, mid) \o CollapseRange(s, mid + 1, hi))
CollapseSpaces(text) == With(text, LAMBDA s : CollapseRange(s, 1, Len(s)))

(***************************************************************************)
(* RegExp.prototype.test for the patterns of the rule cascade.  A pattern  *)
(* is a sequence of items; an item is a literal string or one of the       *)
(* operators below.  Alternation is a sequence of patterns.                *)
(***************************************************************************)
GAP == ".*?"          \* also stands for .* : test() only asks whether a match exists
ANY == "."
WS  == "\\s"
WSS == "\\s*"
D4  == "\\d{4}"
BOL == "^"
EOL == "$"
WB  == "\\b"

RECURSIVE MatchHere(_, _, _, _)
MatchHere(s, i, pat, k) ==
  IF k > Len(pat) THEN TRUE
  ELSE LET it == pat[k] IN
    CASE it = GAP -> \E j \in i..(Len(s) + 1) : MatchHere(s, j, pat, k + 1)
      [] it = ANY -> InText(s, i) /\ MatchHere(s, i + 1, pat, k + 1)
      [] it = WS  -> IsSpaceAt(s, i) /\ MatchHere(s, i + 1, pat, k + 1)
      [] it = WSS -> \E j \in i..SkipSpaces(s, i) : MatchHere(s, j, pat, k + 1)
      [] it = D4  -> Digits4At(s, i) /\ MatchHere(s, i + 4, pat, k + 1)
      [] it = BOL -> i = 1 /\ MatchHere(s, i, pat, k + 1)
      [] it = EOL -> i = Len(s) + 1 /\ MatchHere(s, i, pat, k + 1)
      [] it = WB  -> (IsWordAt(s, i - 1) # IsWordAt(s, i)) /\ MatchHere(s, i, pat, k + 1)
      [] OTHER    -> /\ i + Len(it) - 1 <= Len(s)
                     /\ SubSeq(s, i, i + Len(it) - 1) = it
                     /\ MatchHere(s, i + Len(it), pat, k + 1)

Test(s, pat) == \E i \in 1..(Len(s) + 1) : MatchHere(s, i, pat, 1)
TestAny(s, alts) == \E a \in 1..Len(alts) : Test(s, alts[a])

(***************************************************************************)
(* normalizeVenue, preprocessing (content.js 429-450).  Each operator is   *)
(* one String.prototype.replace call without the g flag: the leftmost      *)
(* match is replaced, once.                                                *)
(***************************************************************************)
Commas(s) == {c \in 1..Len(s) : Char(s, c) = ","}
Least(S) == CHOOSE x \in S : \A y \in S : x <= y
\* s with the characters a..b replaced by r
Splice(s, a, b, r) == SubSeq(s, 1, a - 1) \o r \o SubSeq(s, b + 1, Len(s))

\* venueText.replace(/~$/, "").trim()
StripEllipsis(s) ==
  trim(IF Len(s) >= 1 /\ Char(s, Len(s)) = Ellipsis THEN Upto(s, Len(s) - 1) ELSE s)

\* replace(/\s*,\s*\d{4}(\s|$)/, " ")
StripCommaYear(s) ==
  LET Ok(c) == With(SkipSpaces(s, c + 1), LAMBDA d :
                 Digits4At(s, d) /\ (IsSpaceAt(s, d + 4) \/ d + 4 = Len(s) + 1))
  IN  With({c \in Commas(s) : Ok(c)}, LAMBDA hits :
        IF hits = {} THEN s
        ELSE With(Least(hits), LAMBDA c :
             With(SkipSpaces(s, c + 1), LAMBDA d :
               Splice(s, SpacesBefore(s, c),
                      IF IsSpaceAt(s, d + 4) THEN d + 4 ELSE d + 3, " "))))

\* replace(/\s*\d{4}\s*$/, "")
StripYearAtEnd(s) ==
  With({d \in 1..Len(s) : Digits4At(s, d) /\ OnlySpacesFrom(s, d + 4)}, LAMBDA hits :
    IF hits = {} THEN s
    ELSE With(Least(hits), LAMBDA d : Upto(s, SpacesBefore(s, d) - 1)))

\* replace(/^\d{4}\s+/, "")
StripYearAtStart(s) ==
  IF Digits4At(s, 1) /\ IsSpaceAt(s, 5) THEN From(s, SkipSpaces(s, 5)) ELSE s

\* replace(/\s*,\s*\d+(\s*\(\d+\))?(\s|$)/, " ")
\* IssueEnd(s, e): the position after "(digits)" when that group starts at or after
\* the whitespace at e and is followed by whitespace or the end; 0 otherwise.
IssueEnd(s, e) ==
  With(SkipSpaces(s, e), LAMBDA g :
  With(SkipDigits(s, g + 1), LAMBDA h :
    IF /\ InText(s, g) /\ Char(s, g) = "("
       /\ IsDigitAt(s, g + 1)
       /\ InText(s, h) /\ Char(s, h) = ")"
       /\ (IsSpaceAt(s, h + 1) \/ h = Len(s))
    THEN h + 1 ELSE 0))
StripVolumeIssue(s) ==
  LET Ok(c) == With(SkipSpaces(s, c + 1), LAMBDA d :
               With(SkipDigits(s, d), LAMBDA e :
                 /\ IsDigitAt(s, d)
                 /\ (IssueEnd(s, e) # 0 \/ IsSpaceAt(s, e) \/ e = Len(s) + 1)))
  IN  With({c \in Commas(s) : Ok(c)}, LAMBDA hits :
        IF hits = {} THEN s
        ELSE With(Least(hits), LAMBDA c :
             With(SkipSpaces(s, c + 1), LAMBDA d :
             With(SkipDigits(s, d), LAMBDA e :
             With(IssueEnd(s, e), LAMBDA issueEnd :
             With(IF issueEnd # 0 THEN issueEnd ELSE e, LAMBDA f :
               Splice(s, SpacesBefore(s, c), IF IsSpaceAt(s, f) THEN f ELSE f - 1, " ")))))))

\* replace(/\s*,\s*pp?\s*[\d-]+/i, "")
StripPages(s) ==
  LET IsP(i) == InText(s, i) /\ Char(s, i) \in {"p", "P"}
      \* the position after ",\s*pp?\s*" when that starts at the comma c, else 0
      Numbers(c) == With(SkipSpaces(s, c + 1), LAMBDA q :
                      IF IsP(q) THEN SkipSpaces(s, IF IsP(q + 1) THEN q + 2 ELSE q + 1)
                      ELSE 0)
      \* the position after the match that starts at the comma c, else 0
      End(c) == With(Numbers(c), LAMBDA n :
                  IF n = 0 THEN 0
                  ELSE With(SkipDigitsHyphens(s, n), LAMBDA e : IF e > n THEN e ELSE 0))
  IN  With({c \in Commas(s) : End(c) # 0}, LAMBDA hits :
        IF hits = {} THEN s
        ELSE With(Least(hits), LAMBDA c :
               Splice(s, SpacesBefore(s, c), End(c) - 1, "")))

\* replace(/\s*,\s*\d+-\d+\s*$/, "")
StripPageRangeAtEnd(s) ==
  LET Ok(c) == With(SkipSpaces(s, c + 1), LAMBDA d :
               With(SkipDigits(s, d), LAMBDA e :
                 /\ IsDigitAt(s, d)
                 /\ InText(s, e) /\ Char(s, e) = "-"
                 /\ IsDigitAt(s, e + 1)
                 /\ OnlySpacesFrom(s, SkipDigits(s, e + 1))))
  IN  With({c \in Commas(s) : Ok(c)}, LAMBDA hits :
        IF hits = {} THEN s
        ELSE With(Least(hits), LAMBDA c : Upto(s, SpacesBefore(s, c) - 1)))

\* replace(/^(alt1|alt2|...)/i, ""): the first alternative, in order, that is a
\* prefix of the text (compared in lower case) is removed.
StripFirstPrefix(s, alts) ==
  With(toLowerCase(s), LAMBDA low :
  With({a \in 1..Len(alts) : StartsWith(low, alts[a])}, LAMBDA hits :
    IF hits = {} THEN s ELSE From(s, Len(alts[Least(hits)]) + 1)))

\* replace(/^(proceedings of the |proceedings of |proceedings )/i, "")
StripProceedingsPrefix(s) ==
  StripFirstPrefix(s, <<"proceedings of the ", "proceedings of ", "proceedings ">>)

\* Lines 430-450 in order: the cleaned venueText the rules are matched against.
Preprocess(venueText) ==
  With(StripEllipsis(venueText),  LAMBDA t1 :
  With(StripCommaYear(t1),        LAMBDA t2 :
  With(StripYearAtEnd(t2),        LAMBDA t3 :
  With(StripYearAtStart(t3),      LAMBDA t4 :
  With(StripVolumeIssue(t4),      LAMBDA t5 :
  With(StripPages(t5),            LAMBDA t6 :
  With(StripPageRangeAtEnd(t6),   LAMBDA t7 :
  With(StripProceedingsPrefix(t7), LAMBDA t8 :
    trim(CollapseSpaces(t8))))))))))

\* const isWorkshop = /workshop|ws\b/i.test(venueText)
IsWorkshopText(venueText) ==
  With(toLowerCase(venueText), LAMBDA low :
    TestAny(low, << <<"workshop">>, <<"ws", WB>> >>))

(***************************************************************************)
(* normalizeVenue, the rule cascade (content.js 460-870), in source order. *)
(* Rule(re, base, ws): if (re.test(lowerVenue)) return isWorkshop ? ws :   *)
(* base.  A rule the source gives no workshop variant has ws = base.       *)
(* "no" is the pattern whose match disables the rule (the ACL rule).       *)
(***************************************************************************)
Rule(re, base, ws) == [re |-> re, no |-> <<>>, base |-> base, ws |-> ws]
RuleUnless(re, no, base, ws) == [re |-> re, no |-> no, base |-> base, ws |-> ws]
Conf(re, base) == Rule(re, base, base \o " Workshop")
Fixed(re, base) == Rule(re, base, base)

CvprAndPattern == "computer vision and pattern"

VisionRules ==
  << Conf(<< <<"computer vision and pattern recognition">>, <<"cvpr">>,
             <<"cvf", GAP, CvprAndPattern>>, <<"proceedings", GAP, "cvpr">>,
             <<"ieee", GAP, "cvf", GAP, "computer vision and pattern recognition">>,
             <<"ieee", GAP, "computer", GAP, "society", GAP, "conference", GAP, CvprAndPattern>>,
             <<"proceedings", GAP, "ieee", GAP, "conference", GAP, CvprAndPattern>>,
             <<"ieee", GAP, "conference", GAP, CvprAndPattern>>,
             <<D4, GAP, "proceedings", GAP, "ieee", GAP, "conference", GAP, CvprAndPattern>>,
             <<D4, GAP, "ieee", GAP, "computer", GAP, "society", GAP, "conference", GAP,
               "computer vision">> >>, "CVPR"),
     Conf(<< <<"international conference on computer vision">>, <<"iccv">>,
             <<"proceedings", GAP, "iccv">>,
             <<"ieee", GAP, "international conference on computer vision">>,
             <<"ieee", GAP, "international", GAP, "conference", GAP, "computer vision">>,
             <<"proceedings", GAP, "ieee", GAP, "international", GAP, "conference", GAP,
               "computer vision">> >>, "ICCV"),
     Conf(<< <<"european conference on computer vision">>, <<"eccv">>,
             <<"proceedings", GAP, "eccv">>,
             <<"european", GAP, "conference", GAP, "computer vision">> >>, "ECCV"),
     Conf(<< <<"winter conference on applications of computer vision">>, <<"wacv">>,
             <<"ieee", GAP, "cvf", GAP, "winter conference">>,
             <<"cvf", GAP, "winter conference">> >>, "WACV"),
     Conf(<< <<"british machine vision conference">>, <<"bmvc">> >>, "BMVC"),
     Conf(<< <<"asian conference on computer vision">>, <<"accv">> >>, "ACCV") >>

LearningRules ==
  << Conf(<< <<"neural information processing systems">>, <<"neurips">>, <<"nips">>,
             <<"advances in neural information processing">>,
             <<"conference", GAP, "neural information processing">>,
             <<"proceedings", GAP, "nips">>, <<"proceedings", GAP, "neurips">> >>, "NeurIPS"),
     Conf(<< <<"international conference on machine learning">>, <<"icml">>,
             <<"proceedings", GAP, "icml">> >>, "ICML"),
     Conf(<< <<"international conference on learning representations">>, <<"iclr">> >>,
          "ICLR"),
     Conf(<< <<"artificial intelligence and statistics">>, <<"aistats">>,
             <<"international conference on artificial intelligence and statistics">> >>,
          "AISTATS"),
     Conf(<< <<"aaai">>, <<"association for the advancement of artificial intelligence">>,
             <<"national conference on artificial intelligence">>,
             <<"proceedings", GAP, "aaai">> >>, "AAAI"),
     Conf(<< <<"international joint conference on artificial intelligence">>,
             <<"ijcai">> >>, "IJCAI"),
     Conf(<< <<"uncertainty in artificial intelligence">>, <<"uai">> >>, "UAI") >>

LanguageRules ==
  << RuleUnless(<< <<"association for computational linguistics">>, <<"acl">>,
                   <<"proceedings", GAP, "acl">> >>,
                << <<"naacl">>, <<"eacl">> >>, "ACL", "ACL Workshop"),
     Conf(<< <<"north american chapter">>, <<"naacl">>, <<"findings", GAP, "naacl">> >>,
          "NAACL"),
     Conf(<< <<"empirical methods in natural language processing">>, <<"emnlp">> >>,
          "EMNLP"),
     Conf(<< <<"conference on computational natural language learning">>, <<"conll">> >>,
          "CoNLL"),
     Conf(<< <<"european chapter", GAP, "acl">>, <<"eacl">> >>, "EACL"),
     Conf(<< <<"international conference on computational linguistics">>, <<"coling">> >>,
          "COLING") >>

DataRoboticsSignalRules ==
  << Rule(<< <<"sigkdd">>, <<"knowledge discovery and data mining">>, <<"kdd">>,
             <<"proceedings", GAP, "kdd">> >>, "ACM SIGKDD", "KDD Workshop"),
     Conf(<< <<"international conference on data mining">>, <<"icdm">> >>, "ICDM"),
     Conf(<< <<"world wide web conference">>, <<"www">>,
             <<"international world wide web">> >>, "WWW"),
     Conf(<< <<"international conference on robotics and automation">>, <<"icra">>,
             <<"ieee", GAP, "robotics and automation">> >>, "ICRA"),
     Conf(<< <<"intelligent robots and systems">>, <<"iros">>,
             <<"ieee", GAP, "rsj", GAP, "intelligent robots">> >>, "IROS"),
     Conf(<< <<"acoustics", GAP, "speech", GAP, "signal processing">>, <<"icassp">>,
             <<"international conference on acoustics">> >>, "ICASSP"),
     Conf(<< <<"international conference on image processing">>, <<"icip">> >>, "ICIP") >>

MedicalGraphicsRules ==
  << Conf(<< <<"medical image computing and computer", ANY, "assisted intervention">>,
             <<"miccai">>,
             <<"international conference on medical image computing and computer", ANY,
               "assisted">>,
             <<"medical image computing and computer", ANY, "assisted">> >>, "MICCAI"),
     Conf(<< <<"information processing in medical imaging">>, <<"ipmi">> >>, "IPMI"),
     Conf(<< <<"siggraph">>, <<"computer graphics and interactive techniques">> >>,
          "SIGGRAPH"),
     Conf(<< <<"ieee visualization">>, <<"vis", WS>>, <<"visualization conference">> >>,
          "IEEE VIS") >>

JournalRules ==
  << Fixed(<< <<"transactions on pattern analysis and machine intelligence">>, <<"tpami">>,
              <<"ieee", GAP, "pattern analysis">> >>, "IEEE TPAMI"),
     Fixed(<< <<"transactions on image processing">>, <<"tip">> >>, "IEEE TIP"),
     Fixed(<< <<"transactions on neural networks">>, <<"tnn">>, <<"tnnls">> >>, "IEEE TNN"),
     Fixed(<< <<"transactions on cybernetics">>, <<"tcyb">> >>, "IEEE TCYB"),
     Fixed(<< <<"transactions on multimedia">>, <<"tmm">> >>, "IEEE TMM"),
     Fixed(<< <<"ieee access">> >>, "IEEE Access"),
     Fixed(<< <<"international journal of computer vision">>, <<"ijcv">> >>, "IJCV"),
     Fixed(<< <<"journal of machine learning research">>, <<"jmlr">> >>, "JMLR"),
     Fixed(<< <<"machine learning journal">>, <<BOL, "machine learning", EOL>> >>,
           "Machine Learning Journal"),
     Fixed(<< <<"computer vision and image understanding">>, <<"cviu">> >>, "CVIU"),
     Fixed(<< <<"pattern recognition", WS>>, <<"pattern recognition", EOL>> >>,
           "Pattern Recognition"),
     Fixed(<< <<"medical image analysis">> >>, "Medical Image Analysis"),
     Fixed(<< <<"neurocomputing">> >>, "Neurocomputing"),
     Fixed(<< <<BOL, "science", WS>>, <<BOL, WSS, "science", EOL>> >>, "Science"),
     Fixed(<< <<"nature communications">> >>, "Nature Communications"),
     Fixed(<< <<"nature machine intelligence">> >>, "Nature Machine Intelligence"),
     Fixed(<< <<BOL, "nature", EOL>> >>, "Nature"),
     Fixed(<< <<"proceedings of the national academy of sciences">>, <<"pnas">> >>, "PNAS") >>

SourceRules ==
  << Fixed(<< <<"arxiv">>, <<"ar xiv">>, <<"corr">> >>, "arXiv"),
     Fixed(<< <<"biorxiv">> >>, "bioRxiv"),
     Fixed(<< <<"patent">>, <<"us patent">> >>, "US Patents"),
     Fixed(<< <<"ssrn">>, <<"social science research network">> >>, "Available at SSRN"),
     Fixed(<< <<"springer">>, <<"lecture notes in computer science">>, <<"lncs">> >>,
           "Springer"),
     Fixed(<< <<"mit press">> >>, "MIT Press"),
     Rule(<< <<"conference on human factors">>, <<"chi", WS>>, <<"acm chi">> >>,
          "ACM CHI", "CHI Workshop"),
     Rule(<< <<"sigir">>, <<"information retrieval">> >>, "ACM SIGIR", "SIGIR Workshop"),
     Conf(<< <<"interspeech">> >>, "INTERSPEECH"),
     Fixed(<< <<"isca">> >>, "ISCA") >>

Rules ==
  VisionRules \o LearningRules \o LanguageRules \o DataRoboticsSignalRules
    \o MedicalGraphicsRules \o JournalRules \o SourceRules

RuleMatches(r, lowerVenue) == TestAny(lowerVenue, r.re) /\ ~TestAny(lowerVenue, r.no)

\* Lines 874-886: if (isWorkshop) { acronym checks; return "Workshop" }
WorkshopAcronyms ==
  << Rule(<< <<"cvpr">> >>, "CVPR Workshop", "CVPR Workshop"),
     Rule(<< <<"iccv">> >>, "ICCV Workshop", "ICCV Workshop"),
     Rule(<< <<"eccv">> >>, "ECCV Workshop", "ECCV Workshop"),
     Rule(<< <<"neurips">>, <<"nips">> >>, "NeurIPS Workshop", "NeurIPS Workshop"),
     Rule(<< <<"icml">> >>, "ICML Workshop", "ICML Workshop"),
     Rule(<< <<"aaai">> >>, "AAAI Workshop", "AAAI Workshop"),
     Rule(<< <<"ijcai">> >>, "IJCAI Workshop", "IJCAI Workshop") >>

\* The label of the first rule of the table that matches, NoLabel if none does.
FirstRuleLabel(table, lowerVenue, isWorkshop) ==
  With({k \in 1..Len(table) : RuleMatches(table[k], lowerVenue)}, LAMBDA hits :
    IF hits = {} THEN NoLabel
    ELSE With(table[Least(hits)], LAMBDA rule :
           IF isWorkshop THEN rule.ws ELSE rule.base))

\* Lines 890-915: the relaxed second pass for CVPR, ICCV, ECCV and MICCAI.  It is
\* reached only with isWorkshop false (line 874 returned otherwise).
RelaxedLabel(lowerVenue, isWorkshop) ==
  LET Institutional == << <<"ieee">>, <<"conference">>, <<"proceedings">> >>
      suffix == IF isWorkshop THEN " Workshop" ELSE ""
  IN  IF /\ Test(lowerVenue, <<"computer vision", GAP, "pattern">>)
         /\ TestAny(lowerVenue, Institutional)
      THEN "CVPR" \o suffix
      ELSE IF /\ Test(lowerVenue, <<"international", GAP, "computer vision">>)
              /\ TestAny(lowerVenue, Institutional)
              /\ ~Test(lowerVenue, <<"pattern">>)
      THEN "ICCV" \o suffix
      ELSE IF Test(lowerVenue, <<"european", GAP, "computer vision">>)
      THEN "ECCV" \o suffix
      ELSE IF Test(lowerVenue, <<"medical", GAP, "image", GAP, "computing">>)
      THEN "MICCAI" \o suffix
      ELSE NoLabel

(***************************************************************************)
(* normalizeVenue, fallback processing (content.js 917-945).               *)
(***************************************************************************)
\* venueText.split(/[,.(]/)[0]
BeforeFirstSeparator(s) ==
  With({i \in 1..Len(s) : Char(s, i) \in {",", ".", "("}}, LAMBDA seps :
    IF seps = {} THEN s ELSE Upto(s, Least(seps) - 1))

\* replace(/^(proceedings of the |proceedings of |proceedings |proc\.?\s+|the\s+)/i, "")
StripFallbackPrefix(s) ==
  With(toLowerCase(s), LAMBDA low :
  With(StripProceedingsPrefix(s), LAMBDA stripped :
    LET AfterWord(w) == IF StartsWith(low, w \o ".") /\ w = "proc"
                        THEN Len(w) + 2 ELSE Len(w) + 1
        SpacedWord(w) == StartsWith(low, w) /\ IsSpaceAt(s, AfterWord(w))
    IN  IF stripped # s THEN stripped
        ELSE IF SpacedWord("proc") THEN From(s, SkipSpaces(s, AfterWord("proc")))
        ELSE IF SpacedWord("the") THEN From(s, SkipSpaces(s, AfterWord("the")))
        ELSE s))

\* replace(/\s+(proceedings|proc\.?)$/i, "")
StripFallbackSuffix(s) ==
  With(toLowerCase(s), LAMBDA low :
    LET Ends(w) == /\ Len(low) > Len(w)
                   /\ From(low, Len(low) - Len(w) + 1) = w
                   /\ IsSpaceAt(s, Len(s) - Len(w))
        Cut(w) == Upto(s, SpacesBefore(s, Len(s) - Len(w) + 1) - 1)
    IN  IF Ends("proceedings") THEN Cut("proceedings")
        ELSE IF Ends("proc.") THEN Cut("proc.")
        ELSE IF Ends("proc") THEN Cut("proc")
        ELSE s)

\* replace(/\s+\d{4}$/, "")
StripFallbackYear(s) ==
  IF Len(s) >= 5 /\ Digits4At(s, Len(s) - 3) /\ IsSpaceAt(s, Len(s) - 4)
  THEN Upto(s, SpacesBefore(s, Len(s) - 3) - 1) ELSE s

\* replace(/\s+\d+$/, "")
StripFallbackNumber(s) ==
  With({d \in 1..Len(s) : IsSpaceAt(s, d - 1) /\ IsDigitAt(s, d)
                           /\ SkipDigits(s, d) = Len(s) + 1}, LAMBDA starts :
    IF starts = {} THEN s
    ELSE With(Least(starts), LAMBDA d : Upto(s, SpacesBefore(s, d) - 1)))

StopWords == <<"the", "a", "an", "in", "on", "of", "and", "for", "with">>

Fallback(venueText) ==
  With(trim(BeforeFirstSeparator(venueText)), LAMBDA s1 :
  With(StripFallbackPrefix(s1),               LAMBDA s2 :
  With(StripFallbackSuffix(s2),               LAMBDA s3 :
  With(StripFallbackYear(s3),                 LAMBDA s4 :
  With(trim(StripFallbackNumber(s4)),         LAMBDA s5 :
  With(toLowerCase(s5),                       LAMBDA low :
    IF Len(s5) < 3 \/ \E k \in 1..Len(StopWords) : low = StopWords[k]
    THEN NoLabel
    ELSE s5))))))

(***************************************************************************)
(* normalizeVenue (content.js 422-946).                                    *)
(***************************************************************************)
normalizeVenue(rawText) ==
  IF rawText = "" THEN NoLabel
  ELSE With(Preprocess(rawText),       LAMBDA venueText :
       With(toLowerCase(venueText),    LAMBDA lowerVenue :
       With(IsWorkshopText(venueText), LAMBDA isWorkshop :
       With(FirstRuleLabel(Rules, lowerVenue, isWorkshop), LAMBDA ruled :
         IF ruled # NoLabel THEN ruled
         ELSE IF isWorkshop
         THEN With(FirstRuleLabel(WorkshopAcronyms, lowerVenue, isWorkshop), LAMBDA acronym :
                IF acronym # NoLabel THEN acronym ELSE "Workshop")
         ELSE With(RelaxedLabel(lowerVenue, isWorkshop), LAMBDA relaxed :
                IF relaxed # NoLabel THEN relaxed ELSE Fallback(venueText))))))

(***************************************************************************)
(* The page.  A publication row (tr.gsc_a_tr) is modelled by what          *)
(* extractVenueData reads of it: the text of its .gs_gray elements in      *)
(* document order and the text of its .gsc_a_j element, if it has one.     *)
(***************************************************************************)
NoElement == "<no element>"          \* querySelector returned null

Row(gray, j) == [gray |-> gray, j |-> j]

\* Rows
RowCvpr == Row(<<"A Author, B Author",
                 "2021 IEEE/CVF Conference on Computer Vision and Pattern Recognition, 2021">>,
               NoElement)
RowCvprShort == Row(<<"C Author", "Proc. CVPR, 2019">>, NoElement)
RowCvprWorkshop == Row(<<"D Author",
                 "2021 IEEE/CVF Conference on Computer Vision and Pattern Recognition Workshops">>,
               NoElement)
RowArxiv == Row(<<"E Author", "arXiv preprint arXiv:2001.00001">>, NoElement)
RowOneGray == Row(<<" Findings of NAACL, 2022 ">>, NoElement)
RowJournalField == Row(<<>>, "Nature 521 (7553), 436-444, 2015")
RowStopWord == Row(<<"F Author", "of">>, NoElement)
RowNoVenue == Row(<<>>, NoElement)

AllRows == {RowCvpr, RowCvprShort, RowCvprWorkshop, RowArxiv, RowOneGray,
            RowJournalField, RowStopWord, RowNoVenue}

\* Lines 376-386: the element the venue is read from, as its textContent.
VenueElementText(pub) ==
  IF Len(pub.gray) >= 2 THEN pub.gray[2]
  ELSE IF Len(pub.gray) = 1 THEN pub.gray[1]
  ELSE pub.j      \* pub.querySelector(".gsc_a_j") || pub.querySelector(".gs_gray")

\* Venue texts as Scholar lists them, for a page of one row.
VenueTexts ==
  {"NAACL", "Findings of NAACL, 2022", "Proceedings of NAACL-HLT",
   "North American Chapter of the Association for Computational Linguistics",
   "Proceedings of the North American Chapter of the ACL, 2019",
   "Annual Meeting of the Association for Computational Linguistics",
   "European Chapter of the ACL", "Findings of EMNLP",
   "CVPR", "IEEE/CVF Conference on Computer Vision and Pattern Recognition, 2021",
   "International Conference on Computer Vision", "NeurIPS", "ICRA 2020",
   "KDD", "Proceedings of the ACM SIGKDD", "Nature 521 (7553), 436-444",
   "IEEE Transactions on Pattern Analysis and Machine Intelligence",
   "arXiv preprint arXiv:2001.00001", "Medical Image Computing, 2020",
   "Quux", "Quux 12 34", "The The Foo", "Foo Proceedings Proc", "Journal of Foo, 12 (3)",
   "the of", "of", "Bar~", "Robot Learning Symposium 2021"}
VenueRow(text) == Row(<<"A Author", text>>, NoElement)
WorkshopOf(text) == text \o " Workshop"

\* normalizeVenue(venueElement.textContent.trim()) for the texts of AllRows, for
\* VenueTexts, for these with " Workshop" appended, and for the labels of all of
\* them, computed once.
LabelsOf(texts) == {<<text, normalizeVenue(trim(text))>> : text \in texts}
VenueLabels ==
  With(LabelsOf(({VenueElementText(pub) : pub \in AllRows} \ {NoElement})
                  \cup VenueTexts \cup {WorkshopOf(text) : text \in VenueTexts}),
       LAMBDA listed :
         listed \cup LabelsOf({entry[2] : entry \in listed} \ {NoLabel}))
NormalizedVenue(text) == (CHOOSE entry \in VenueLabels : entry[1] = text)[2]

\* Lines 388-400: one forEach step on the accumulator (venues object, counters).
\* The venues object is kept as its keys in insertion order with their counts.
CountVenue(venues, label) ==
  With({k \in 1..Len(venues) : venues[k].venue = label}, LAMBDA at :
    IF at = {} THEN Append(venues, [venue |-> label, count |-> 1])
    ELSE [venues EXCEPT ![CHOOSE k \in at : TRUE] =
                          [venue |-> label, count |-> @.count + 1]])

\* ProcessPublication with lines 396 and 399 counting the record as processed.
\* Lines 376-391: the venue of a row, NoLabel when it has no venue element.
VenueOf(pub) ==
  With(VenueElementText(pub), LAMBDA text :
    IF text = NoElement THEN NoLabel ELSE NormalizedVenue(text))

ProcessPublicationCountingSkips(acc, pub) ==
  With(VenueOf(pub), LAMBDA label :
    IF label # NoLabel
    THEN [acc EXCEPT !.venues = CountVenue(@, label), !.processedCount = @ + 1]
    ELSE [acc EXCEPT !.processedCount = @ + 1])

ProcessPublication(acc, pub) ==
  With(VenueOf(pub), LAMBDA label :
    IF label # NoLabel
    THEN [acc EXCEPT !.venues = CountVenue(@, label), !.processedCount = @ + 1]
    ELSE [acc EXCEPT !.skippedCount = @ + 1])

\* Line 373: publications.forEach, rows lo..hi in order, starting from acc.  The
\* range is halved, and the first half is done before the second is begun, so
\* that the evaluation does not nest as deep as the page is long.
RECURSIVE ForEachPublication(_, _, _, _)
ForEachPublication(publications, lo, hi, acc) ==
  IF lo > hi THEN acc
  ELSE IF lo = hi THEN ProcessPublication(acc, publications[lo])
  ELSE With((lo + hi) \div 2, LAMBDA mid :
       With(ForEachPublication(publications, lo, mid, acc), LAMBDA half :
         ForEachPublication(publications, mid + 1, hi, half)))

\* Object.entries order: keys that are array indices come first, in ascending
\* numeric order; the other keys follow in insertion order.
IsArrayIndex(key) ==
  /\ Len(key) >= 1 /\ Len(key) <= 9
  /\ \A i \in 1..Len(key) : IsDigitAt(key, i)
  /\ (Len(key) > 1 => Char(key, 1) # "0")
DigitValue(c) == CHOOSE d \in 0..9 : Char("0123456789", d + 1) = c
RECURSIVE IndexValue(_, _)
IndexValue(key, n) ==
  IF n = 0 THEN 0 ELSE 10 * IndexValue(key, n - 1) + DigitValue(Char(key, n))
RECURSIVE InsertIndexKey(_, _)
InsertIndexKey(sorted, e) ==
  IF sorted = <<>> THEN <<e>>
  ELSE IF IndexValue(e.venue, Len(e.venue)) < IndexValue(Head(sorted).venue, Len(Head(sorted).venue))
  THEN <<e>> \o sorted
  ELSE <<Head(sorted)>> \o InsertIndexKey(Tail(sorted), e)
RECURSIVE SortIndexKeys(_)
SortIndexKeys(es) ==
  IF es = <<>> THEN <<>>
  ELSE With(SortIndexKeys(Tail(es)), LAMBDA sorted : InsertIndexKey(sorted, Head(es)))
ObjectEntries(venues) ==
  With(SelectSeq(venues, LAMBDA e : IsArrayIndex(e.venue)), LAMBDA indexed :
    SortIndexKeys(indexed) \o SelectSeq(venues, LAMBDA e : ~IsArrayIndex(e.venue)))

\* Array.prototype.sort((a, b) => b.count - a.count): stable, count descending.
RECURSIVE InsertByCount(_, _)
InsertByCount(sorted, e) ==
  IF sorted = <<>> THEN <<e>>
  ELSE IF Head(sorted).count >= e.count
  THEN <<Head(sorted)>> \o InsertByCount(Tail(sorted), e)
  ELSE <<e>> \o sorted
RECURSIVE SortByCount(_, _)
SortByCount(es, n) ==
  IF n = 0 THEN <<>>
  ELSE With(SortByCount(es, n - 1), LAMBDA sorted : InsertByCount(sorted, es[n]))

\* extractVenueData (content.js 363-419) over the rows now on the page.
extractVenueData(publications) ==
  With(ForEachPublication(publications, 1, Len(publications),
         [venues |-> <<>>, processedCount |-> 0, skippedCount |-> 0]), LAMBDA acc :
  With(ObjectEntries(acc.venues), LAMBDA entries :
    [venues |-> SortByCount(entries, Len(entries)),
     processedCount |-> acc.processedCount,
     skippedCount |-> acc.skippedCount]))

(***************************************************************************)
(* The controls of the page, in document order.  An element is modelled by *)
(* what findShowMoreButtonSync and isValidShowMoreButtonFast read of it.   *)
(*   shown       offsetParent !== null                                     *)
(*   inTitleCell element.closest("td.gsc_a_t") is an element               *)
(*   href        the href property: a string, Undefined, or SvgHref for    *)
(*               the SVGAnimatedString object of an SVG <a>                *)
(*   html        an HTMLElement (has a click method); SVG elements do not  *)
(***************************************************************************)
Undefined == "<undefined>"
SvgHref   == "<SVGAnimatedString>"

Element(tag, role, id, cls, onclick, text, shown, disabled, inTitleCell, href, html) ==
  [tag |-> tag, role |-> role, id |-> id, cls |-> cls, onclick |-> onclick,
   text |-> text, shown |-> shown, disabled |-> disabled,
   inTitleCell |-> inTitleCell, href |-> href, html |-> html]

Includes(s, part) == Test(s, <<part>>)          \* String.prototype.includes

\* isValidShowMoreButtonFast (content.js 300-317): "true", "false", or "throw"
\* when element.href?.includes is called on an href that is not a string.
isValidShowMoreButtonFast(element) ==
  With(toLowerCase(trim(element.text)), LAMBDA text :
  With(~element.inTitleCell /\ "gsc_a_at" \notin element.cls, LAMBDA reachesHref :
    LET isVisible == element.shown
        isEnabled == ~element.disabled
        hasValidText == \/ Includes(text, "show more") \/ Includes(text, "more")
                        \/ text = "show" \/ element.id = "gsc_bpf_more"
        isNotPaperLink == /\ reachesHref
                          /\ (element.href = Undefined \/ ~Includes(element.href, "view_citation"))
    IN  IF reachesHref /\ element.href = SvgHref THEN "throw"
        ELSE IF isVisible /\ isEnabled /\ hasValidText /\ isNotPaperLink THEN "true"
        ELSE "false"))

\* The elements a selector list matches, as their positions in the document.
QueryAll(page, Matches(_)) == SelectSeq([i \in 1..Len(page) |-> i],
                                    LAMBDA i : Matches(page[i]))
\* document.querySelector: the first match, as a sequence of length 0 or 1.
QueryFirst(page, Matches(_)) ==
  With(QueryAll(page, Matches), LAMBDA all :
    IF all = <<>> THEN <<>> ELSE <<Head(all)>>)

IsShowMoreText(element) ==
  With(toLowerCase(trim(element.text)), LAMBDA text :
    text = "show more" \/ text = "more" \/ Includes(text, "show more"))

\* The elements isValidShowMoreButtonFast is called on, in the order
\* findShowMoreButtonSync (content.js 252-297) calls it.
ShowMoreCandidates(page) ==
  QueryFirst(page, LAMBDA e : e.id = "gsc_bpf_more")
    \o QueryFirst(page, LAMBDA e : e.tag = "button" /\ e.id = "gsc_bpf_more")
    \o QueryFirst(page, LAMBDA e : "gsc_pgn_pnx" \in e.cls)
    \o QueryAll(page, LAMBDA e :
         /\ (e.tag = "button" \/ (e.tag \in {"span", "div"} /\ e.role = "button"))
         /\ IsShowMoreText(e))
    \o QueryAll(page, LAMBDA e :
         e.onclick # Undefined /\ (Includes(e.onclick, "gsc") \/ Includes(e.onclick, "more")))

\* findShowMoreButtonSync deciding on its first candidate alone.
findFirstCandidateOnly(page) ==
  With(ShowMoreCandidates(page), LAMBDA cands :
    IF cands = <<>> THEN [kind |-> "null", at |-> 0]
    ELSE With(isValidShowMoreButtonFast(page[Head(cands)]), LAMBDA valid :
           IF valid = "throw" THEN [kind |-> "throw", at |-> 0]
           ELSE IF valid = "true" THEN [kind |-> "element", at |-> Head(cands)]
           ELSE [kind |-> "null", at |-> 0]))

\* findShowMoreButtonSync: [kind |-> "element", at |-> position], [kind |-> "null"]
\* or [kind |-> "throw"].  at = 0 when there is no element.
findShowMoreButtonSync(page) ==
  With(ShowMoreCandidates(page), LAMBDA cands :
  With([k \in 1..Len(cands) |-> isValidShowMoreButtonFast(page[cands[k]])], LAMBDA valid :
  With({k \in 1..Len(cands) : valid[k] # "false"}, LAMBDA stops :
    IF stops = {} THEN [kind |-> "null", at |-> 0]
    ELSE IF valid[Least(stops)] = "throw" THEN [kind |-> "throw", at |-> 0]
    ELSE [kind |-> "element", at |-> cands[Least(stops)]])))

\* isValidScholarProfilePage (content.js 151-176)
isValidScholarProfilePage(url) ==
  IF ~Includes(url, "scholar.google.") THEN FALSE
  ELSE IF ~Includes(url, "/citations?") THEN FALSE
  ELSE IF Includes(url, "view_op=view_citation") THEN FALSE
  ELSE /\ Includes(url, "user=")
       /\ (\/ Includes(url, "view_op=list_works")
           \/ ~Includes(url, "view_op=")
           \/ Includes(url, "view_op=list_colleagues"))

\* Documents
ShowMoreButton(disabled) ==
  Element("button", Undefined, "gsc_bpf_more", {}, Undefined, "Show more",
          TRUE, disabled, FALSE, Undefined, TRUE)
DocScholar   == <<ShowMoreButton(FALSE)>>    \* more rows can be asked for
DocExhausted == <<ShowMoreButton(TRUE)>>     \* Scholar disables the button at the end
DocBare      == <<>>
\* an SVG control: valid for isValidShowMoreButtonFast, but it has no click method
DocSvgControl ==
  <<Element("g", Undefined, "", {}, "loadmore()", "more", TRUE, FALSE, FALSE, Undefined, FALSE)>>
\* an SVG link: its href is an SVGAnimatedString
DocSvgLink ==
  <<Element("a", Undefined, "", {}, "gsc_next()", "next", TRUE, FALSE, FALSE, SvgHref, FALSE)>>
\* the Scholar button disabled, and another button labelled "Show more"
DocSecondButton ==
  <<ShowMoreButton(TRUE),
    Element("button", Undefined, "", {}, Undefined, " Show more ", TRUE, FALSE, FALSE,
            Undefined, TRUE)>>

AllDocuments == {DocScholar, DocExhausted, DocBare, DocSvgControl, DocSvgLink, DocSecondButton}

Urls == {"https://scholar.google.com/citations?user=abc&hl=en",
         "https://scholar.google.com/citations?view_op=view_citation&user=abc",
         "https://scholar.google.com/scholar?q=tla"}

\* findShowMoreButtonSync and isValidScholarProfilePage on the documents and URLs
\* above, computed once.
ShowMoreButtons == {<<d, findShowMoreButtonSync(d)>> : d \in AllDocuments}
FindShowMoreButton(d) == (CHOOSE entry \in ShowMoreButtons : entry[1] = d)[2]
ProfilePages == {<<url, isValidScholarProfilePage(url)>> : url \in Urls}
IsProfilePage(url) == (CHOOSE entry \in ProfilePages : entry[1] = url)[2]

(***************************************************************************)
(* Program constants.                                                      *)
(***************************************************************************)
maxAttempts   == 200       \* loadAllPublications
LoadTimeout   == 10000     \* the timeout loadAllPublications passes to the wait
FastDelay     == 50        \* poll delay while consecutiveFailures < FastChecks
MediumDelay   == 200       \* poll delay while consecutiveFailures < MediumChecks
SlowDelay     == 500       \* poll delay afterwards
FastChecks    == 5
MediumChecks  == 15

BusyMessage == "Analysis already in progress - please wait"
NotProfileMessage ==
  "This page doesn't appear to be a Google Scholar profile with publications. Please navigate to a profile page like: scholar.google.com/citations?user=..."
NoPublicationsMessage ==
  "No publications found on this page. Make sure you are on the 'ARTICLES' tab of a Google Scholar profile page with publications."
NoVenuesMessage ==
  "No venues could be extracted from the publications. Please check if you're on the ARTICLES tab of a Scholar profile."
HrefTypeError == "element.href?.includes is not a function"

(***************************************************************************)
(* What sendResponse is called with.  "fields" names the properties the    *)
(* object has; a property it does not have holds its default below.        *)
(***************************************************************************)
Message(fields, success, error, venues, found, processed, skipped) ==
  [fields |-> fields, success |-> success, error |-> error, venues |-> venues,
   totalFound |-> found, totalProcessed |-> processed, totalSkipped |-> skipped]

\* line 28: sendResponse({ error: "Analysis already in progress - please wait" })
BusyResponse == Message({"error"}, FALSE, BusyMessage, <<>>, 0, 0, 0)
\* SuccessResponse with totalFound taken from the count loadAllPublications returned.
StaleSuccessResponse(result, actualCount, finalCount) ==
  Message({"venues", "totalFound", "totalProcessed", "totalSkipped", "success"},
          TRUE, Undefined, result.venues, finalCount,
          result.processedCount, result.skippedCount)
\* line 45: sendResponse({ error: error.message, success: false })
FailureResponse(error) == Message({"error", "success"}, FALSE, error, <<>>, 0, 0, 0)
\* lines 137-143, sent at line 40
SuccessResponse(result, actualCount, finalCount) ==
  Message({"venues", "totalFound", "totalProcessed", "totalSkipped", "success"},
          TRUE, Undefined, result.venues, actualCount,
          result.processedCount, result.skippedCount)

(***************************************************************************)
(* One execution of analyzeAllVenues, suspended at an await.  pc names the *)
(* timer it waits for:                                                     *)
(*   "poll"    setTimeout(checkForNewPublications, delay)      line 354    *)
(*   "settle"  the 300 ms delay between attempts               line 233    *)
(*   "final"   the 500 ms delay after the loop                 line 246    *)
(* inst is the listener (one per injection that registered one) and req    *)
(* the request it serves.  startCount, lookups, clicks, clicked (the       *)
(* position of the element clicked last), waits and fault record what the  *)
(* run has done so far; the code does not read them.                       *)
(***************************************************************************)
NewRun(inst, req, count) ==
  [inst |-> inst, req |-> req, pc |-> "start",
   publicationsBefore |-> count, attempts |-> 0,
   consecutiveFailures |-> 0, elapsed |-> 0, finalCount |-> 0,
   startCount |-> count, lookups |-> 0, clicks |-> 0, clicked |-> 0, waits |-> 0,
   fault |-> "none"]

\* A call of sendResponse, with the record of the run that made it.
Answer(run, msg, extracted, rows) ==
  [inst |-> run.inst, msg |-> msg, startCount |-> run.startCount,
   lookups |-> run.lookups, clicks |-> run.clicks, waits |-> run.waits,
   fault |-> run.fault, extracted |-> extracted, rows |-> rows]

\* The result of running the script up to its next await or to its response.
Suspended(run) == [kind |-> "await", run |-> run, answer |-> <<>>]
Responded(answer) == [kind |-> "respond", run |-> <<>>, answer |-> answer]

\* Lines 240-246: leave the loop, read the final count, start the 500 ms delay.
ExitLoop(run, count) ==
  [run EXCEPT !.pc = "final", !.finalCount = count,
              !.consecutiveFailures = 0, !.elapsed = 0]

\* Lines 219-233: what loadAllPublications does with the count the wait resolved to.
AfterWait(run, newCount, count) ==
  IF newCount = run.publicationsBefore THEN ExitLoop(run, count)
  ELSE [run EXCEPT !.pc = "settle", !.publicationsBefore = newCount,
                   !.attempts = @ + 1, !.consecutiveFailures = 0, !.elapsed = 0]

\* Lines 344-352
PollDelay(consecutiveFailures) ==
  IF consecutiveFailures < FastChecks THEN FastDelay
  ELSE IF consecutiveFailures < MediumChecks THEN MediumDelay
  ELSE SlowDelay

\* checkForNewPublications (lines 326-355) with count rows on the page and
\* run.elapsed milliseconds since the wait began.
checkForNewPublications(run, count) ==
  IF count > run.publicationsBefore THEN AfterWait(run, count, count)
  ELSE IF run.elapsed > LoadTimeout THEN AfterWait(run, count, count)
  ELSE [run EXCEPT !.pc = "poll",
                   !.consecutiveFailures = @ + 1,
                   !.elapsed = @ + PollDelay(run.consecutiveFailures + 1)]

\* LoopPass with the loop condition of line 188 replaced by true.
\* Lines 190-238: the body of the while loop, from line 190 to the next await.
LoopBody(run, document, count) ==
  With([run EXCEPT !.lookups = @ + 1], LAMBDA looked :
  With(FindShowMoreButton(document),   LAMBDA showMoreButton :
    CASE showMoreButton.kind = "throw" ->
           \* line 190 is outside the try block: the error leaves
           \* loadAllPublications and analyzeAllVenues and reaches line 42
           Responded(Answer([looked EXCEPT !.fault = "find"],
                            FailureResponse(HrefTypeError), FALSE, <<>>))
      [] showMoreButton.kind = "null" -> Suspended(ExitLoop(looked, count))
      [] OTHER ->
           IF ~document[showMoreButton.at].html
           THEN \* showMoreButton.click is not a function: caught at line 234
                Suspended(ExitLoop([looked EXCEPT !.fault = "click"], count))
           ELSE Suspended(checkForNewPublications(
                  [looked EXCEPT !.clicks = @ + 1, !.clicked = showMoreButton.at,
                                 !.waits = @ + 1,
                                 !.consecutiveFailures = 0, !.elapsed = 0], count))))

LoopPassUnbounded(run, document, count) == LoopBody(run, document, count)

\* Lines 188-238: one pass of the while loop, from its condition to the next await.
LoopPass(run, document, count) ==
  IF ~(run.attempts < maxAttempts) THEN Suspended(ExitLoop(run, count))
  ELSE LoopBody(run, document, count)

\* BeginAnalysis with the check of lines 72-74 left out.
BeginAnalysisUnchecked(inst, req, url, document, publications) ==
  LET run == NewRun(inst, req, Len(publications))
  IN  IF ~IsProfilePage(url)
      THEN Responded(Answer(run, FailureResponse(NotProfileMessage), FALSE, <<>>))
      ELSE LoopPass(run, document, Len(publications))

\* Lines 53-76: analyzeAllVenues up to its first await.
BeginAnalysis(inst, req, url, document, publications) ==
  LET run == NewRun(inst, req, Len(publications))
  IN  IF ~IsProfilePage(url)
      THEN Responded(Answer(run, FailureResponse(NotProfileMessage), FALSE, <<>>))
      ELSE IF Len(publications) = 0
      THEN Responded(Answer(run, FailureResponse(NoPublicationsMessage), FALSE, <<>>))
      ELSE LoopPass(run, document, Len(publications))

\* FinishAnalysis with the check of lines 109-111 left out.
FinishAnalysisUnchecked(run, publications) ==
  With(extractVenueData(publications), LAMBDA venueAnalysisResult :
    Answer(run, SuccessResponse(venueAnalysisResult, Len(publications), run.finalCount),
           TRUE, publications))

\* Lines 95-143 and 36-46: after the final delay, extract and respond.
FinishAnalysis(run, publications) ==
  With(Len(publications),              LAMBDA actualCount :
  With(extractVenueData(publications), LAMBDA venueAnalysisResult :
    IF Len(venueAnalysisResult.venues) = 0
    THEN Answer(run, FailureResponse(NoVenuesMessage), TRUE, publications)
    ELSE Answer(run, SuccessResponse(venueAnalysisResult, actualCount, run.finalCount),
                TRUE, publications)))

(***************************************************************************)
(* The content script as a state machine.  One step is one task of the     *)
(* page's event loop: a message dispatch, a timer callback with the        *)
(* promise reactions it triggers, an injection of the script, a            *)
(* beforeunload event, or a change the page makes to itself.               *)
(***************************************************************************)
VARIABLES
  scholarAnalyzerRunning,   \* window.scholarAnalyzerRunning
  isAnalyzing,              \* isAnalyzing of each registered listener's closure
  runs,                     \* the executions of analyzeAllVenues now suspended
  responses,                \* per request, the sendResponse calls made for it
  publications,             \* the tr.gsc_a_tr rows of the page
  document,                 \* the controls of the page
  changes                   \* how many times the page has changed itself

vars == <<scholarAnalyzerRunning, isAnalyzing, runs, responses, publications,
          document, changes>>

\* Bounds of the model
MaxListeners == 2     \* injections that register a listener (the first included)
MaxRequests  == 2     \* analyzeVenues messages sent
MaxRuns      == 2     \* executions suspended at the same time
MaxRecords   == 3     \* rows on a page that changes by itself
MaxChanges   == 2     \* changes the page makes to itself
MaxLoaded    == 2     \* rows a page whose scripts come and go loads up to
MaxFeed      == 202   \* rows a page that answers every click can grow to

TypeOK ==
  /\ scholarAnalyzerRunning \in BOOLEAN
  /\ Len(isAnalyzing) \in 1..MaxListeners
  /\ \A i \in 1..Len(isAnalyzing) : isAnalyzing[i] \in BOOLEAN
  /\ \A r \in runs : /\ r.inst \in 1..Len(isAnalyzing)
                     /\ r.req \in 1..Len(responses)
                     /\ r.pc \in {"poll", "settle", "final"}
  /\ Len(responses) <= MaxRequests
  /\ changes \in 0..MaxChanges

\* After the first injection: lines 1-49 and 948-953 have run once.
Init ==
  /\ scholarAnalyzerRunning = TRUE
  /\ isAnalyzing = <<FALSE>>
  /\ runs = {}
  /\ responses = <<>>
  /\ publications \in {<<>>, <<RowStopWord>>}
  /\ document \in {DocScholar, DocExhausted}
  /\ changes = 0

\* Lines 1-49, 948-953: the script is injected again.
Inject ==
  /\ IF scholarAnalyzerRunning
     THEN UNCHANGED <<scholarAnalyzerRunning, isAnalyzing>>      \* line 9: return
     ELSE /\ Len(isAnalyzing) < MaxListeners
          /\ scholarAnalyzerRunning' = TRUE
          /\ isAnalyzing' = Append(isAnalyzing, FALSE)
  /\ UNCHANGED <<runs, responses, publications, document, changes>>

\* Lines 949-953, for every injection that registered the handler.  The event is
\* cancelable: the page may stay, with everything that was suspended still pending.
BeforeUnload ==
  /\ isAnalyzing' = [i \in 1..Len(isAnalyzing) |-> FALSE]
  /\ scholarAnalyzerRunning' = FALSE
  /\ UNCHANGED <<runs, responses, publications, document, changes>>

\* Lines 17-49: a message {action: "analyzeVenues"} is dispatched to every
\* registered listener in turn; url is window.location.href at that time.
\* Lines 26-34: what the listener i does with the request req.
Heard(i, req, url) ==
  IF isAnalyzing[i]
  THEN Responded(Answer(NewRun(i, req, Len(publications)), BusyResponse, FALSE, <<>>))
  ELSE BeginAnalysis(i, req, url, document, publications)

Dispatch(url) ==
  LET listeners == 1..Len(isAnalyzing) IN
  \E heard \in {[i \in listeners |-> Heard(i, Len(responses) + 1, url)]} :
  \E answering \in {SelectSeq([i \in listeners |-> i],
                               LAMBDA i : heard[i].kind = "respond")} :
      /\ Len(responses) < MaxRequests
      /\ runs' = runs \cup {heard[i].run : i \in {j \in listeners : heard[j].kind = "await"}}
      /\ Cardinality(runs') <= MaxRuns
      /\ isAnalyzing' = [i \in listeners |-> isAnalyzing[i] \/ heard[i].kind = "await"]
      /\ responses' = Append(responses,
                             [k \in 1..Len(answering) |-> heard[answering[k]].answer])
      /\ UNCHANGED <<scholarAnalyzerRunning, publications, document, changes>>

Request == \E url \in Urls : Dispatch(url)

\* Continue with the reset of isAnalyzing (lines 37 and 43) left out.
ContinueKeepingFlag(run, result) ==
  \E next \in {result} :
  /\ IF next.kind = "await"
     THEN /\ runs' = (runs \ {run}) \cup {next.run}
          /\ UNCHANGED <<isAnalyzing, responses>>
     ELSE /\ runs' = runs \ {run}
          /\ UNCHANGED isAnalyzing
          /\ responses' = [responses EXCEPT ![run.req] = Append(@, next.answer)]
  /\ UNCHANGED <<scholarAnalyzerRunning, publications, document, changes>>

\* A run goes on to its next await, or responds (lines 36-46).
Continue(run, result) ==
  \E next \in {result} :
  /\ IF next.kind = "await"
     THEN /\ runs' = (runs \ {run}) \cup {next.run}
          /\ UNCHANGED <<isAnalyzing, responses>>
     ELSE /\ runs' = runs \ {run}
          /\ isAnalyzing' = [isAnalyzing EXCEPT ![run.inst] = FALSE]
          /\ responses' = [responses EXCEPT ![run.req] = Append(@, next.answer)]
  /\ UNCHANGED <<scholarAnalyzerRunning, publications, document, changes>>

\* The poll timer of a wait fires (line 354).
PollTimer ==
  \E run \in runs :
    /\ run.pc = "poll"
    /\ Continue(run, Suspended(checkForNewPublications(run, Len(publications))))

\* The 300 ms delay between attempts ends (line 233).
SettleTimer ==
  \E run \in runs :
    /\ run.pc = "settle"
    /\ Continue(run, LoopPass(run, document, Len(publications)))

\* The 500 ms delay after the loop ends (line 246).
FinalTimer ==
  \E run \in runs :
    /\ run.pc = "final"
    /\ Continue(run, Responded(FinishAnalysis(run, publications)))

\* The page changes itself: at most MaxChanges times, at any moment.
AppendRow(rows) ==
  /\ changes < MaxChanges /\ Len(publications) < MaxRecords
  /\ \E row \in rows : publications' = Append(publications, row)
  /\ changes' = changes + 1
  /\ UNCHANGED <<scholarAnalyzerRunning, isAnalyzing, runs, responses, document>>

RemoveRow ==
  /\ changes < MaxChanges /\ Len(publications) > 0
  /\ publications' = SubSeq(publications, 1, Len(publications) - 1)
  /\ changes' = changes + 1
  /\ UNCHANGED <<scholarAnalyzerRunning, isAnalyzing, runs, responses, document>>

ReplaceControls(documents) ==
  /\ changes < MaxChanges
  /\ \E d \in documents \ {document} : document' = d
  /\ changes' = changes + 1
  /\ UNCHANGED <<scholarAnalyzerRunning, isAnalyzing, runs, responses, publications>>

\* The page answers a click: while a run waits for growth (line 214) and has not
\* seen any, a row arrives, as long as the page holds fewer than limit rows.
LoadMore(limit, rows) ==
  /\ \E run \in runs : run.pc = "poll" /\ Len(publications) = run.publicationsBefore
  /\ Len(publications) < limit
  /\ \E row \in rows : publications' = Append(publications, row)
  /\ UNCHANGED <<scholarAnalyzerRunning, isAnalyzing, runs, responses, document, changes>>

\* The rows the page may add.
AddedRows == {RowCvpr, RowCvprShort, RowArxiv, RowStopWord, RowNoVenue}
PageAddsRow == AppendRow(AddedRows)
PageChangesControls == ReplaceControls(AllDocuments)
PageLoadsMore == LoadMore(MaxLoaded, {RowCvpr})
PageFeeds == LoadMore(MaxFeed, {RowCvpr})

\* The first request only.
FirstRequest == responses = <<>> /\ Request

\* The answers of the first request that extracted the one row now on the page.
FirstAnswers ==
  IF Len(responses) = 1 /\ Len(publications) = 1
  THEN {a \in {responses[1][k] : k \in 1..Len(responses[1])} :
          a.extracted /\ a.rows = publications}
  ELSE {}
\* The page comes to list text as the venue of its row, once.
Relist(text) ==
  /\ changes = 0 /\ runs = {}
  /\ publications' = <<VenueRow(text)>>
  /\ changes' = changes + 1
  /\ UNCHANGED <<scholarAnalyzerRunning, isAnalyzing, runs, responses, document>>

\* The label that was returned for the row is now listed as its venue.
PageListsLabel ==
  \E a \in FirstAnswers : a.msg.success /\ Relist(a.msg.venues[1].venue)
\* The venue is now listed with " Workshop" after it.
PageListsWorkshop ==
  \E a \in FirstAnswers :
    /\ VenueElementText(a.rows[1]) \in VenueTexts
    /\ Relist(WorkshopOf(VenueElementText(a.rows[1])))

(***************************************************************************)
(* Spec: the life of the script in a tab.  Injections, beforeunload events *)
(* and requests arrive in any order while runs are suspended; the page     *)
(* loads rows when asked to.                                               *)
(***************************************************************************)
Next ==
  \/ Inject
  \/ BeforeUnload
  \/ Request
  \/ PollTimer
  \/ SettleTimer
  \/ FinalTimer
  \/ PageLoadsMore

Spec == Init /\ [][Next]_vars

\* The timer of a run suspended at pc fires: the run leaves the set of suspended
\* runs, replaced by its next suspension or gone with its response.  In Next
\* these are exactly the steps of PollTimer, SettleTimer and FinalTimer.  (The
\* first disjunct implies the second; it gives TLC a successor to try when it
\* evaluates ENABLED.)
Resumed(pc) ==
  \E run \in runs : run.pc = pc /\ (runs' = runs \ {run} \/ run \notin runs')

\* Timers that are due fire (the event loop runs every task it holds): those
\* loadAllPublications waits for, and all of them.
LoaderTimersFire == WF_runs(Resumed("poll")) /\ WF_runs(Resumed("settle"))
TimersFire == LoaderTimersFire /\ WF_runs(Resumed("final"))

FairSpec == Spec /\ TimersFire

(***************************************************************************)
(* SpecPage: one listener on a page that changes under it in any way, at   *)
(* any moment: rows come and go, the controls are replaced.                *)
(***************************************************************************)
InitPage ==
  /\ scholarAnalyzerRunning = TRUE
  /\ isAnalyzing = <<FALSE>>
  /\ runs = {}
  /\ responses = <<>>
  /\ publications \in {<<>>, <<RowCvpr>>, <<RowStopWord>>, <<RowCvpr, RowCvprWorkshop>>}
  /\ document \in {DocScholar, DocExhausted}
  /\ changes = 0

NextPage ==
  \/ Request
  \/ PollTimer
  \/ SettleTimer
  \/ FinalTimer
  \/ PageAddsRow
  \/ RemoveRow
  \/ PageChangesControls

SpecPage == InitPage /\ [][NextPage]_vars

(***************************************************************************)
(* SpecLoader: one run on a page that may answer every click with a new    *)
(* row, for more clicks than loadAllPublications makes.                    *)
(***************************************************************************)
InitLoader ==
  /\ scholarAnalyzerRunning = TRUE
  /\ isAnalyzing = <<FALSE>>
  /\ runs = {}
  /\ responses = <<>>
  /\ publications = <<RowCvpr>>
  /\ document = DocScholar
  /\ changes = 0

NextLoader ==
  \/ FirstRequest
  \/ PollTimer
  \/ SettleTimer
  \/ FinalTimer
  \/ PageFeeds

SpecLoader == InitLoader /\ [][NextLoader]_vars /\ LoaderTimersFire

(***************************************************************************)
(* SpecVenue: normalizeVenue on the venue texts of VenueTexts.  The page   *)
(* lists one row and has no more to load; a request is answered with the   *)
(* label of the row; the page then lists that label, or the same venue as  *)
(* a workshop, and a second request is answered.                           *)
(***************************************************************************)
InitVenue ==
  /\ scholarAnalyzerRunning = TRUE
  /\ isAnalyzing = <<FALSE>>
  /\ runs = {}
  /\ responses = <<>>
  /\ publications \in {<<VenueRow(text)>> : text \in VenueTexts}
  /\ document = DocExhausted
  /\ changes = 0

NextVenue ==
  \/ Request
  \/ FinalTimer
  \/ PageListsLabel
  \/ PageListsWorkshop

SpecVenue == InitVenue /\ [][NextVenue]_vars

(***************************************************************************)
(* Properties of the message listener (lines 17-49, 948-953).              *)
(***************************************************************************)
\* The step is the dispatch of a request.
RequestStep == Len(responses') = Len(responses) + 1
\* The answers the request dispatched by this step has received in this step.
NewAnswers == responses'[Len(responses')]
AllBusy(answers) ==
  Len(answers) >= 1 /\ \A k \in 1..Len(answers) : answers[k].msg = BusyResponse

\* C1: a request that arrives while a run is in flight is answered in the same
\* step with the already-in-progress error and nothing else, starts no run, and
\* leaves the suspended runs and the in-progress flags as they were.
C1_BusyRejection ==
  [][(RequestStep /\ runs # {})
       => (AllBusy(NewAnswers) /\ runs' = runs /\ isAnalyzing' = isAnalyzing)]_vars

\* C2: in every reachable state at most one analysis run is in flight.
C2_AtMostOneRun == Cardinality(runs) <= 1

\* The request has been dispatched / has been answered exactly once.
Dispatched(req) == Len(responses) >= req
AnsweredOnce(req) == Dispatched(req) /\ Len(responses[req]) = 1

\* C3: when timers fire, every request that is dispatched receives exactly one
\* response: it is never answered twice, and it is eventually answered.
C3_ExactlyOneResponse ==
  /\ [](\A req \in 1..Len(responses) : Len(responses[req]) <= 1)
  /\ \A req \in 1..MaxRequests : Dispatched(req) ~> AnsweredOnce(req)

\* The answers listener inst has given at the end of a run (not the busy ones).
RunAnswers(all, inst) ==
  {<<req, k>> \in (1..Len(all)) \X (1..MaxListeners) :
     k <= Len(all[req]) /\ all[req][k].inst = inst /\ all[req][k].msg # BusyResponse}
\* This step ends a run of listener inst.
EndsRun(inst) == RunAnswers(responses', inst) # RunAnswers(responses, inst)

\* C4: every step that ends a run, whatever its outcome, and every beforeunload
\* event leaves the in-progress flag of the listener cleared, so that a request
\* dispatched when no run is in flight is never rejected as already in progress.
C4_FlagCleared ==
  [][/\ \A inst \in 1..Len(isAnalyzing) : EndsRun(inst) => ~isAnalyzing'[inst]
     /\ BeforeUnload => \A inst \in 1..Len(isAnalyzing) : ~isAnalyzing'[inst]
     /\ (RequestStep /\ runs = {})
          => \A k \in 1..Len(NewAnswers) : NewAnswers[k].msg # BusyResponse]_vars

\* A run has ended in the empty-result failure and the same listener has accepted
\* the next request.
C4_AcceptedAfterFailure ==
  \E run \in runs :
    /\ run.req = 2
    /\ \E k \in 1..Len(responses[1]) :
         /\ responses[1][k].inst = run.inst
         /\ responses[1][k].msg = FailureResponse(NoVenuesMessage)

(***************************************************************************)
(* Properties of the responses (lines 52-148, 363-419).                    *)
(***************************************************************************)
\* Every call of sendResponse made so far.
Answers ==
  {responses[req][k] : <<req, k>> \in
     {<<r, j>> \in (1..Len(responses)) \X (1..MaxListeners) : j <= Len(responses[r])}}
SuccessAnswers == {a \in Answers : a.msg.success}
\* The rows whose venue text normalizeVenue gives a label.
Classified(rows) ==
  {j \in 1..Len(rows) :
     /\ VenueElementText(rows[j]) # NoElement
     /\ NormalizedVenue(VenueElementText(rows[j])) # NoLabel}
RowLabel(row) == NormalizedVenue(VenueElementText(row))
RECURSIVE SumCounts(_, _)
SumCounts(venues, n) == IF n = 0 THEN 0 ELSE SumCounts(venues, n - 1) + venues[n].count

\* C5: in every success response totalProcessed + totalSkipped = totalFound,
\* totalFound is the number of rows on the page when extraction ran, and every
\* such row is counted once: processed if it has a label, skipped if not.
C5_CountsAddUp ==
  \A a \in SuccessAnswers :
    /\ a.msg.totalProcessed + a.msg.totalSkipped = a.msg.totalFound
    /\ a.msg.totalFound = Len(a.rows)
    /\ a.msg.totalProcessed = Cardinality(Classified(a.rows))
    /\ a.msg.totalSkipped = Len(a.rows) - Cardinality(Classified(a.rows))

\* A success whose run waited for growth, ended on a page with another number
\* of rows than it began with, and skipped a row.
C5_CountChangedDuringRun ==
  \E a \in SuccessAnswers :
    a.waits >= 1 /\ a.startCount # Len(a.rows) /\ a.msg.totalSkipped >= 1

C7_NoRowsFailsFirst ==
  /\ \A run \in runs : run.startCount # 0
  /\ \A a \in Answers :
       (a.startCount = 0 /\ a.msg # BusyResponse)
         => /\ a.msg.fields = {"error", "success"} /\ ~a.msg.success
            /\ a.msg.error \in {NotProfileMessage, NoPublicationsMessage}
            /\ a.lookups = 0 /\ a.clicks = 0 /\ a.waits = 0 /\ ~a.extracted

\* A request on a profile page without rows has been answered.
C7_NoRowsAnswered ==
  \E a \in Answers : a.startCount = 0 /\ a.msg = FailureResponse(NoPublicationsMessage)

\* C8: a run that extracts and classifies no row responds with the no-venues
\* failure, and no success response has an empty venues list.
C8_EmptyAggregateFails ==
  /\ \A a \in Answers :
       (a.extracted /\ Classified(a.rows) = {})
          => a.msg = FailureResponse(NoVenuesMessage)
  /\ \A a \in SuccessAnswers : Len(a.msg.venues) >= 1

\* A run has loaded rows, extracted, and skipped every row.
C8_AllSkipped ==
  \E a \in Answers :
    a.extracted /\ a.clicks >= 1 /\ Len(a.rows) >= 2 /\ Classified(a.rows) = {}

\* C10: a run that met an error while loading (looking up the button, validating
\* it, clicking it) ends its loop, goes on to extract from the rows loaded so far,
\* and does not answer with the failure that carries that error.
C10_LoadingErrorsCaught ==
  /\ \A run \in runs : run.fault # "none" => run.pc = "final"
  /\ \A a \in Answers :
       a.fault # "none" => (a.extracted /\ a.msg # FailureResponse(HrefTypeError))

(***************************************************************************)
(* Properties of loadAllPublications (lines 179-249, 320-360).             *)
(***************************************************************************)
\* loadAllPublications is running: the run is in its loop, at one of its awaits.
LoaderActive == \E run \in runs : run.pc \in {"poll", "settle"}

\* C9: loadAllPublications clicks the button at most maxAttempts times, one
\* click for each change of the count it has seen and at most one more, which
\* is its last (so a click that changes nothing is followed by no other), and
\* when timers fire it always returns.
C9_LoaderTerminates ==
  /\ [](\A run \in runs :
          /\ run.clicks <= maxAttempts /\ run.attempts <= maxAttempts
          /\ run.clicks <= run.attempts + 1
          /\ (run.pc = "settle" => run.clicks = run.attempts))
  /\ [](\A a \in Answers : a.clicks <= maxAttempts)
  /\ LoaderActive ~> ~LoaderActive

\* The page has answered every click and the run has stopped at the ceiling.
C9_StoppedAtCeiling ==
  \E a \in Answers : a.clicks = maxAttempts /\ a.msg.success /\ a.msg.totalFound > maxAttempts

(***************************************************************************)
(* Properties of normalizeVenue (lines 422-946).                           *)
(***************************************************************************)
\* The answers of runs that extracted a page of one row, the venue text of that
\* row, and the label normalizeVenue gave it (NoLabel: the run found no venue).
VenueAnswers == {a \in Answers : a.extracted /\ Len(a.rows) = 1}
ListedText(a) == VenueElementText(a.rows[1])
ReturnedLabel(a) == IF a.msg.success THEN a.msg.venues[1].venue ELSE NoLabel

AclShaped(text) ==
  TestAny(toLowerCase(text), << <<"association for computational linguistics">>, <<"acl">> >>)
NaaclShaped(text) ==
  TestAny(toLowerCase(text), << <<"north american chapter">>, <<"naacl">> >>)

\* C11: every venue text that matches both an ACL-shaped pattern ("association for
\* computational linguistics", "acl") and an NAACL-shaped pattern ("north american
\* chapter", "naacl") is labelled "NAACL" or "NAACL Workshop".
C11_NaaclBeforeAcl ==
  \A a \in VenueAnswers :
    (AclShaped(ListedText(a)) /\ NaaclShaped(ListedText(a)))
      => ReturnedLabel(a) \in {"NAACL", "NAACL Workshop"}

\* C12: normalizeVenue is idempotent on its own output: when the label returned
\* for a venue text is itself listed as the venue text, it is returned unchanged.
C12_Idempotent ==
  \A first, second \in VenueAnswers :
    (ReturnedLabel(first) # NoLabel /\ ListedText(second) = ReturnedLabel(first))
      => ReturnedLabel(second) = ReturnedLabel(first)

\* The rule of the cascade that decides a venue text (0: none does), and whether
\* the text sets isWorkshop.
DecidingRule(text) ==
  With(toLowerCase(Preprocess(trim(text))), LAMBDA lowerVenue :
  With({k \in 1..Len(Rules) : RuleMatches(Rules[k], lowerVenue)}, LAMBDA hits :
    IF hits = {} THEN 0 ELSE Least(hits)))
TaggedWorkshop(text) == IsWorkshopText(Preprocess(trim(text)))
HasWorkshopVariant(rule) == rule.ws # rule.base

\* C13: when one rule decides a venue text both without and with " Workshop"
\* appended, the label of the workshop text is the label of the plain text with
\* " Workshop" appended if the rule has a workshop variant, and is the label of
\* the plain text if it has none.
C13_WorkshopTagging ==
  \A plain, tagged \in VenueAnswers :
    ( /\ ListedText(tagged) = WorkshopOf(ListedText(plain))
      /\ ~TaggedWorkshop(ListedText(plain)) /\ TaggedWorkshop(ListedText(tagged))
      /\ DecidingRule(ListedText(plain)) # 0
      /\ DecidingRule(ListedText(tagged)) = DecidingRule(ListedText(plain)) )
    => ReturnedLabel(tagged) =
         IF HasWorkshopVariant(Rules[DecidingRule(ListedText(plain))])
         THEN ReturnedLabel(plain) \o " Workshop"
         ELSE ReturnedLabel(plain)

(***************************************************************************)
(* Properties of the loading loop and of the listener (lines 1-360).       *)
(***************************************************************************)
\* C14: a run starts another iteration of the loading loop only when its wait
\* saw more rows than the count it had recorded, so the count a run records
\* (publicationsBefore) never decreases and grows with every iteration.
C14_LoopsOnlyOnGrowth ==
  [][\A before \in runs : \A after \in runs' :
       (after.inst = before.inst /\ after.req = before.req)
         => /\ after.publicationsBefore >= before.publicationsBefore
            /\ (after.attempts > before.attempts
                  => after.publicationsBefore > before.publicationsBefore)]_vars

\* What a step did to the run that is suspended after it: the run looked for
\* the button, it clicked one, it left the loop without a fault.
PriorRuns(after) == {before \in runs : before.inst = after.inst /\ before.req = after.req}
LookedUp(after) ==
  after.lookups > 0 /\ \A before \in PriorRuns(after) : after.lookups > before.lookups
Clicked(after) ==
  after.clicks > 0 /\ \A before \in PriorRuns(after) : after.clicks > before.clicks
DeclaredLoaded(after) ==
  LookedUp(after) /\ ~Clicked(after) /\ after.pc = "final" /\ after.fault = "none"
\* The candidates of the page that are actionable, as positions in
\* ShowMoreCandidates(page).
Actionable(page) ==
  {k \in 1..Len(ShowMoreCandidates(page)) :
     isValidShowMoreButtonFast(page[ShowMoreCandidates(page)[k]]) = "true"}

C16_SingleListener ==
  /\ Len(isAnalyzing) <= 1
  /\ \A req \in 1..Len(responses) : Len(responses[req]) <= 1
  /\ \A one, other \in runs : one.req = other.req => one = other

=============================================================================
